---- MODULE Spec2Model ----
\* The two daily incremental scanners of the repository and the scrape cycle
\* of the equipment tracker, as one state machine:
\*   scraper.py                      (variant "scraper": .last_id + known.json,
\*                                    probe ceiling MAX_PAGES, stop on None)
\*   scraper/scraper/nbtc_scraper.py (variant "nbtc": state.json, blank-run
\*                                    limit BLANK_LIMIT, no probe ceiling)
\*   nbtc_equipment_scraper.py       (variant "equipment": run_scrape_cycle
\*                                    over the equipment table)
\* One behaviour follows one script over a sequence of scheduled runs.  The
\* remote site is a map from identifiers to pages that is revealed probe by
\* probe and stays fixed until RemoteChange.
EXTENDS Integers, Sequences, FiniteSets, TLC

VARIABLES
    variant,      \* which script this behaviour runs
    environ,      \* os.environ of the running process, as far as it is read
    lastFile,     \* .last_id / state.json            (durable)
    knownFile,    \* known.json                       (durable, scraper.py only)
    table,        \* equipment table: equipment_id -> notified   (durable)
    remote,       \* identifier -> page, for the identifiers revealed so far
    pc,           \* position of the process
    current,      \* scraper.py: current
    offset,       \* scraper.py: loop variable of  for offset in range(MAX_PAGES)
    known,        \* scraper.py: known
    last,         \* nbtc_scraper.py: last
    blanks,       \* nbtc_scraper.py: blanks
    new_devices,  \* both scripts: new_devices
    equipment_urls, \* run_scrape_cycle: the URLs still to be processed
    exit,         \* process exit status, meaningful when pc = "done"
    runs,         \* number of runs started
    \* ---- history variables (never read by the program's actions) ----
    loaded,       \* what load_int / load_state returned in this run
    probes,       \* probes of this run, in order: identifier, result, new?
    cause,        \* why the process ended abnormally, "none" if it did not
    stop,         \* how the run left its loop: "blank", "ceiling", "none"
    quiet,        \* no transient fetch failure in this run so far
    prev,         \* summary of the previous run
    maxSaved,     \* highest cursor any run persisted so far
    pre,          \* the durable files as they were when this run started
    wrote,        \* the durable files this run has written completely,
                  \* in the order it wrote them
    sends,        \* the Telegram sends this run attempted, in order
    reported,     \* the devices this run reported (file, message, stdout)
    everKnown,    \* every name known.json has held so far
    attempts,     \* equipment_id -> outcomes of the sends made for it
    \* ---- manage_scraper.py resend (one process per command) ----
    equipment_list, \* resend_notifications: the rows still to be resent
    dirty,        \* rows changed in the manager's session, not committed
    \* ---- two overlapping nbtc_scraper.py processes on one state.json ----
    procs,        \* process -> its pc, last, blanks and what it loaded
    overlapped,   \* a process started while the other one was running
    lastWriter    \* the process that wrote state.json last, 0 if none did

vars == <<variant, environ, lastFile, knownFile, table, remote, pc, current,
          offset, known, last, blanks, new_devices, equipment_urls, exit,
          runs, loaded, probes, cause, stop, quiet, prev, maxSaved, pre,
          wrote, sends, reported, everKnown, attempts, equipment_list,
          dirty, procs, overlapped, lastWriter>>

\* The process ended abnormally: an exception nothing caught, or a kill.
uncaught == cause # "none"

\* State of the equipment tracker, which the two scanners never touch.
eqVars == <<table, equipment_urls, attempts, equipment_list, dirty>>

\* State of the two overlapping processes, which a behaviour of one
\* scheduled process at a time never touches.
ovVars == <<procs, overlapped, lastWriter>>

Range(s) == {s[i] : i \in 1..Len(s)}

\* ------------------------------------------------------------ bounds
\* Runs a behaviour may start.
MaxRuns == 2
\* Probes of one nbtc_scraper.py run that the model tracks identifier by
\* identifier (the script itself has no such limit).
MaxNSProbes == 4

\* URLs one search of the equipment tracker returns.
MaxUrls == 2

\* ------------------------------------------------- program constants
\* MAX_PAGES, BLANK_LIMIT (500 in the source) and the seed identifier
\* (1628277 in the source) are scaled down; the exit statuses are exact.
MAX_PAGES == 3
BLANK_LIMIT == 2
DEFAULT_ID == 1
EXIT_NEW_SCRAPER == 77
EXIT_NEW_NBTC == 1
EXIT_NOTHING == 0
\* Exit status of the interpreter when an exception is not caught.
EXIT_UNCAUGHT == 1
\* Exit status the caller sees when the process is killed (128 + SIGKILL).
EXIT_KILLED == 137

Names == {"A", "B"}
None == "None"
TARGET_TYPE == "target"

\* A page of the remote site: absent (non-200 / "Whoops" / no record), or a
\* record with an equipment type and a device name.
AbsentPage == [type |-> "none", name |-> None]
Pages == {AbsentPage} \cup [type : {TARGET_TYPE, "other"}, name : Names]

\* What a script can tell apart: scraper.py reads only the name heading,
\* nbtc_scraper.py only the type column, so one representative of the
\* attribute a script never reads is enough.
PagesSeenBy(v) ==
    {p \in Pages : IF v = "scraper" THEN p.type # "other"
                                    ELSE p.name \in {None, "A"}}

\* The page at identifier id: the revealed one, or any page on first sight.
PageChoices(id) ==
    IF id \in DOMAIN remote THEN {remote[id]} ELSE PagesSeenBy(variant)

Reveal(id, page) ==
    IF id \in DOMAIN remote THEN remote ELSE remote @@ (id :> page)

\* A run probes upward from its first identifier, so no probe of it can reach
\* a page below that; the map keeps the pages a probe can still reach.
Reachable(r, first) == [i \in {j \in DOMAIN r : j >= first} |-> r[i]]

\* Outcome of the HTTP request itself.
NetOutcomes == {"ok", "timeout"}

\* ------------------------------------------------ durable artifacts
\* Content of the cursor file.  "int": text / JSON holding integer val;
\* "nonint": well-formed JSON whose last_id is not a number, such as a
\* string or null (for .last_id: text that int() rejects; a fractional
\* last_id is not modelled); "unreadable": no file, an empty file or one
\* that does not parse (open, json.load or the key lookup raises: the
\* scripts catch all of these in the same except clause).
FileInt(v) == [tag |-> "int", val |-> v]
FileBad(t) == [tag |-> t, val |-> 0]
StoredIds == {3}
CursorFiles == {FileBad("unreadable"), FileBad("nonint")}
                 \cup {FileInt(v) : v \in StoredIds}

\* Content of known.json: ok = FALSE for a missing or unparsable file.
KnownFiles == {[ok |-> FALSE, names |-> {}]}
                \cup {[ok |-> TRUE, names |-> s] : s \in {{}, {"A"}}}

\* The START_ID environment variable of nbtc_scraper.py.
EnvStartIds == {FileBad("unset"), FileBad("garbage"), FileInt(2)}

\* The environment of a process.  START_ID is read by nbtc_scraper.py, and
\* only when state.json gives no last_id; creds (BOT_TOKEN and CHAT_ID both
\* set; TELEGRAM_BOT_TOKEN and TELEGRAM_CHAT_ID for the equipment tracker)
\* by the other two scripts.  Where a script does not read a variable, one
\* representative value is enough.
NoEnviron == [START_ID |-> FileBad("unset"), creds |-> FALSE]
Environs(v, file) ==
    [START_ID : IF v = "nbtc" /\ file.tag = "unreadable"
                THEN EnvStartIds ELSE {FileBad("unset")},
     creds : IF v = "nbtc" THEN {FALSE} ELSE BOOLEAN]

\* Mutant of HasCreds: the send is attempted whatever the environment.
M_HasCreds(env) == TRUE

\* if BOT_TOKEN and CHAT_ID (scraper.py line 80);
\* not (not self.bot or not self.telegram_chat_id)  (equipment tracker)
HasCreds(env) == env.creds

\* What a script keeps from one run to the next, taken together.
Durable == [last |-> lastFile, known |-> knownFile, table |-> table]

\* Mutant of KeptDuringScan: the cursor is written at every probe.
M_KeptDuringScan(file, cursor) == [tag |-> "int", val |-> cursor]

\* The cursor file through one iteration of a scan loop: neither loop body
\* opens it (cursor is the loop's cursor after the iteration).
KeptDuringScan(file, cursor) == file

\* Summary of the previous run.  completed: it ended normally; saved: it
\* wrote its cursor to the cursor file; cursor: the cursor it wrote (0 if
\* none); quiet: it completed, none of its probes failed in transit and the
\* remote site has not changed since; ids: the identifiers a quiet run
\* probed; kept: the cursor file is still as it left it; first: the first
\* identifier probed by a run that ended inside its loop (0 otherwise);
\* START_ID: its environment.
NoPrev == [ran |-> FALSE, completed |-> FALSE, cursor |-> 0, stop |-> "none",
           saved |-> FALSE, quiet |-> TRUE, kept |-> TRUE, ids |-> {},
           first |-> 0, START_ID |-> FileBad("unset")]

\* One entry of the probe history.  saw: what the request brought back
\* ("fail" when it brought nothing, else the type of the page); res: what the
\* script made of it; new: the script counted it as a new device.
ProbeRec(id, saw, res, new) ==
    [id |-> id, saw |-> saw, res |-> res, new |-> new]
ProbedIds == {probes[i].id : i \in 1..Len(probes)}

\* One entry of the send history.  at: where the process was when it sent.
SendRec(ok, at) == [ok |-> ok, at |-> at]

\* ------------------------------------------------------- scraper.py
\* load_int(path, default)
load_int(file, default) ==
    IF file.tag = "int" THEN file.val ELSE default

\* load_known()
M_load_known(file) == {}
load_known(file) ==
    IF file.ok THEN file.names ELSE {}

\* get_device_name(eq_id) on the page it fetched (status 200 assumed by the
\* caller's net = "ok"; an absent page stands for non-200 and "Whoops").
get_device_name(page) ==
    IF page.type = "none" THEN None ELSE page.name

\* Mutant of SP_eq_id: the scan starts one past the stored cursor.
M_SP_eq_id(cur, off) == cur + off + 1

\* eq_id = current + offset
SP_eq_id(cur, off) == cur + off

\* Mutant of SP_IsNew: every name counts as new.
M_SP_IsNew(name, kn) == TRUE

\* if name not in known: new_devices.append(name); known.add(name)
SP_IsNew(name, kn) == name \notin kn

\* Mutant of SP_AdvanceCursor: the cursor stays on the identifier probed.
M_SP_AdvanceCursor(eq_id) == eq_id

\* Mutants of SP_StopCursor: the stopping point is stepped over; the loop
\* variable is stored instead of the identifier.
M_SP_StopCursor_Advance(eq_id) == eq_id + 1
M_SP_StopCursor_Offset(eq_id) == offset

\* current = eq_id        (line 65, the stopping point)
SP_StopCursor(eq_id) == eq_id

\* current = eq_id + 1    (line 70, advance)
SP_AdvanceCursor(eq_id) == eq_id + 1

\* Mutant of SP_LoopCond: one iteration too many.
M_SP_LoopCond(off) == off <= MAX_PAGES

\* range(MAX_PAGES) has another value
SP_LoopCond(off) == off < MAX_PAGES

\* Mutant of SP_ExitStatus: a single new device is not reported.
M_SP_ExitStatus(found) ==
    IF Len(found) > 1 THEN EXIT_NEW_SCRAPER ELSE EXIT_NOTHING

\* exit status of scraper.py's last block
SP_ExitStatus(found) ==
    IF found # <<>> THEN EXIT_NEW_SCRAPER ELSE EXIT_NOTHING

\* --------------------------------------------------- nbtc_scraper.py
NoDev == [id |-> 0]

\* fetch(id_) on the page it fetched; every exception inside is caught.
fetch(id, net, page) ==
    IF net # "ok" THEN NoDev
    ELSE IF page.type # TARGET_TYPE THEN NoDev
    ELSE [id |-> id]

\* Python truth value of fetch's result
Truthy(dev) == dev # NoDev

\* last += 1
NS_NextId(l) == l + 1

\* Mutant of NS_LoopCond: one blank too many.
M_NS_LoopCond(b) == b <= BLANK_LIMIT

\* while blanks < BLANK_LIMIT
NS_LoopCond(b) == b < BLANK_LIMIT

\* Mutant of NS_BlanksAfter: a device does not reset the count.
M_NS_BlanksAfter(dev, b) == IF Truthy(dev) THEN b ELSE b + 1

\* if dev: blanks = 0 ... else: blanks += 1
NS_BlanksAfter(dev, b) == IF Truthy(dev) THEN 0 ELSE b + 1

\* exit status of main()
NS_ExitStatus(found) ==
    IF found # <<>> THEN EXIT_NEW_NBTC ELSE EXIT_NOTHING

\* load_state(): the stored last_id whatever its type, else int(START_ID)
load_state(file, env) ==
    IF file.tag \in {"int", "nonint"} THEN file
    ELSE IF env.tag = "unset" THEN FileInt(DEFAULT_ID)
    ELSE env

\* int(os.getenv("START_ID", ...)) raises ValueError
load_state_raises(file, env) ==
    file.tag \notin {"int", "nonint"} /\ env.tag = "garbage"

\* scraper.py lines 28-30: save_int(path, value), given the file it
\* overwrites
save_int(file, value) == FileInt(value)

\* scraper.py lines 38-39: save_known(names), given the file it overwrites
save_known(file, names) == [ok |-> TRUE, names |-> names]

\* nbtc_scraper.py lines 21-22: save_state(last_id), given the file it
\* overwrites.  M_save_state keeps the higher of the two cursors;
\* M_save_state_Short stores a cursor BLANK_LIMIT lower.
M_save_state(file, last_id) ==
    IF file.tag = "int" /\ file.val > last_id THEN file ELSE FileInt(last_id)
M_save_state_Short(file, last_id) == FileInt(last_id - BLANK_LIMIT)
save_state(file, last_id) == FileInt(last_id)

\* scraper.py lines 77-82: new_device.txt and the message carry
\* first = new_devices[0] and nothing else
SP_Reported(found) == <<found[1]>>

\* nbtc_scraper.py lines 64-67: print and GITHUB_OUTPUT carry the whole
\* list, when there is one
NS_Reported(found) == found

\* The two processes of the overlapping runs, and a process not started.
Processes == {1, 2}
NoProc == [pc |-> "idle", last |-> 0, blanks |-> 0, loaded |-> 0]

\* ------------------------------------------------------------- Init
Init ==
    /\ variant \in {"scraper", "nbtc", "equipment"}
    /\ environ = NoEnviron
    /\ lastFile \in (IF variant = "equipment" THEN {FileBad("unreadable")}
                     ELSE CursorFiles)
    /\ knownFile \in (IF variant = "scraper" THEN KnownFiles
                      ELSE {[ok |-> FALSE, names |-> {}]})
    /\ remote = <<>>
    /\ pc = "idle"
    /\ current = 0
    /\ offset = 0
    /\ known = {}
    /\ last = 0
    /\ blanks = 0
    /\ new_devices = <<>>
    /\ exit = 0
    /\ runs = 0
    /\ loaded = FileBad("none")
    /\ probes = <<>>
    /\ cause = "none"
    /\ stop = "none"
    /\ quiet = TRUE
    /\ prev = NoPrev
    /\ maxSaved = 0
    /\ wrote = <<>>
    /\ sends = <<>>
    /\ table = <<>>
    /\ equipment_urls = <<>>
    /\ reported = <<>>
    /\ everKnown = load_known(knownFile)
    /\ attempts = <<>>
    /\ equipment_list = <<>>
    /\ dirty = {}
    /\ procs = [p \in Processes |-> NoProc]
    /\ overlapped = FALSE
    /\ lastWriter = 0
    /\ pre = Durable

\* A fresh process: nothing of an earlier run's memory is there.
RunLocalReset ==
    /\ pre' = Durable
    /\ wrote' = <<>>
    /\ sends' = <<>>
    /\ reported' = <<>>
    /\ new_devices' = <<>>
    /\ probes' = <<>>
    /\ cause' = "none"
    /\ stop' = "none"
    /\ quiet' = TRUE
    /\ exit' = 0

\* scraper.py lines 15-16 and 56-58
SP_Start ==
    /\ variant = "scraper" /\ pc = "idle" /\ runs < MaxRuns
    /\ environ' \in Environs(variant, lastFile)
    /\ current' = load_int(lastFile, DEFAULT_ID)
    /\ loaded' = FileInt(load_int(lastFile, DEFAULT_ID))
    /\ known' = load_known(knownFile)
    /\ offset' = 0
    /\ pc' = "scan"
    /\ remote' = Reachable(remote,
                            SP_eq_id(load_int(lastFile, DEFAULT_ID), 0))
    /\ RunLocalReset /\ runs' = runs + 1
    /\ UNCHANGED <<variant, lastFile, knownFile, last, blanks, prev,
                   maxSaved, everKnown, eqVars, ovVars>>

\* scraper.py lines 61-70: one iteration of the for loop
SP_Probe ==
    /\ variant = "scraper" /\ pc = "scan" /\ SP_LoopCond(offset)
    /\ LET eq_id == SP_eq_id(current, offset) IN
       \E net \in NetOutcomes : \E page \in PageChoices(eq_id) :
         IF net # "ok"
         THEN \* requests.get raises: nothing catches it
              /\ probes' = Append(probes,
                                  ProbeRec(eq_id, "fail", "raise", FALSE))
              /\ pc' = "done" /\ exit' = EXIT_UNCAUGHT /\ cause' = "fetch"
              /\ quiet' = FALSE
              /\ UNCHANGED <<remote, current, offset, known, new_devices,
                             stop, lastFile>>
         ELSE LET name == get_device_name(page)
                  new == name # None /\ SP_IsNew(name, known)
              IN
              /\ probes' = Append(probes,
                                  ProbeRec(eq_id, page.type, name, new))
              /\ remote' = Reveal(eq_id, page)
              /\ UNCHANGED <<exit, quiet, cause>>
              /\ IF name = None
                 THEN /\ current' = SP_StopCursor(eq_id)
                      /\ pc' = "save_int" /\ stop' = "blank"
                      /\ UNCHANGED <<offset, known, new_devices>>
                 ELSE /\ IF new
                         THEN /\ new_devices' = Append(new_devices, name)
                              /\ known' = known \cup {name}
                         ELSE UNCHANGED <<new_devices, known>>
                      /\ current' = SP_AdvanceCursor(eq_id)
                      /\ offset' = offset + 1
                      /\ UNCHANGED <<pc, stop>>
              /\ lastFile' = KeptDuringScan(lastFile, current')
    /\ UNCHANGED <<variant, environ, knownFile, last, blanks, runs, loaded,
                   prev, maxSaved, pre, wrote, sends,
                   eqVars, ovVars, reported, everKnown>>

\* scraper.py line 61: range(MAX_PAGES) is exhausted
SP_LoopEnd ==
    /\ variant = "scraper" /\ pc = "scan" /\ ~SP_LoopCond(offset)
    /\ pc' = "save_int" /\ stop' = "ceiling"
    /\ UNCHANGED <<variant, environ, lastFile, knownFile, remote, current,
                   offset, known, last, blanks, new_devices, exit, runs,
                   loaded, probes, cause, quiet, prev, maxSaved, pre, wrote,
                   sends,
                   eqVars, ovVars, reported, everKnown>>

Max(a, b) == IF a >= b THEN a ELSE b

\* How writing a file with open(path, "w") can go: the content is written;
\* open raises and the file stays as it was; or the file is truncated and
\* the write raises before the content is complete.
WriteOutcomes == {"ok", "refused", "torn"}

\* The file after a write that raised.
AfterFailedWrite(io, file, torn) == IF io = "torn" THEN torn ELSE file

TornCursor == FileBad("unreadable")
TornKnown == [ok |-> FALSE, names |-> {}]

\* scraper.py line 73: save_int(LAST_FILE, current)
SP_SaveInt ==
    /\ variant = "scraper" /\ pc = "save_int"
    /\ \E io \in WriteOutcomes :
         IF io = "ok"
         THEN /\ lastFile' = save_int(lastFile, current)
              /\ maxSaved' = Max(maxSaved, current)
              /\ wrote' = Append(wrote, "cursor")
              /\ pc' = "save_known"
              /\ UNCHANGED <<exit, cause>>
         ELSE /\ lastFile' = AfterFailedWrite(io, lastFile, TornCursor)
              /\ pc' = "done" /\ exit' = EXIT_UNCAUGHT /\ cause' = "save"
              /\ UNCHANGED <<maxSaved, wrote>>
    /\ UNCHANGED <<variant, environ, knownFile, remote, current, offset,
                   known, last, blanks, new_devices, runs, loaded, probes,
                   stop, quiet, prev, pre, sends,
                   eqVars, ovVars, reported, everKnown>>

\* scraper.py line 74: save_known(known)
SP_SaveKnown ==
    /\ variant = "scraper" /\ pc = "save_known"
    /\ \E io \in WriteOutcomes :
         IF io = "ok"
         THEN /\ knownFile' = save_known(knownFile, known)
              /\ everKnown' = everKnown \cup save_known(knownFile, known).names
              /\ wrote' = Append(wrote, "known")
              /\ pc' = "report"
              /\ UNCHANGED <<exit, cause>>
         ELSE /\ knownFile' = AfterFailedWrite(io, knownFile, TornKnown)
              /\ pc' = "done" /\ exit' = EXIT_UNCAUGHT
              /\ cause' = "save_known"
              /\ UNCHANGED <<wrote, everKnown>>
    /\ UNCHANGED <<variant, environ, lastFile, remote, current, offset,
                   known, last, blanks, new_devices, runs, loaded, probes,
                   stop, quiet, prev, maxSaved, pre, sends, reported, eqVars,
                   ovVars>>

\* scraper.py lines 76-86: new_device.txt, the Telegram send, sys.exit.
\* Writing new_device.txt can raise, and so can the send.
SP_Report ==
    /\ variant = "scraper" /\ pc = "report"
    /\ \E fileOk \in BOOLEAN : \E sendOk \in BOOLEAN :
         IF new_devices = <<>>
         THEN /\ exit' = SP_ExitStatus(new_devices)
              /\ UNCHANGED <<cause, sends, reported>>
         ELSE IF ~fileOk
         THEN /\ exit' = EXIT_UNCAUGHT /\ cause' = "output"
              /\ UNCHANGED <<sends, reported>>
         ELSE IF ~HasCreds(environ)
         THEN /\ exit' = SP_ExitStatus(new_devices)
              /\ reported' = SP_Reported(new_devices)
              /\ UNCHANGED <<cause, sends>>
         ELSE /\ sends' = Append(sends, SendRec(sendOk, pc))
              /\ reported' = SP_Reported(new_devices)
              /\ IF sendOk
                 THEN exit' = SP_ExitStatus(new_devices) /\ UNCHANGED cause
                 ELSE exit' = EXIT_UNCAUGHT /\ cause' = "send"
    /\ pc' = "done"
    /\ UNCHANGED <<variant, environ, lastFile, knownFile, remote, current,
                   offset, known, last, blanks, new_devices, runs, loaded,
                   probes, stop, quiet, prev, maxSaved, pre, wrote,
                   everKnown, eqVars, ovVars>>

\* nbtc_scraper.py lines 49-51
NS_Start ==
    /\ variant = "nbtc" /\ pc = "idle" /\ runs < MaxRuns
    /\ \E e \in Environs(variant, lastFile) :
         /\ environ' = e
         /\ RunLocalReset /\ runs' = runs + 1
         /\ blanks' = 0
         /\ IF load_state_raises(lastFile, e.START_ID)
            THEN /\ loaded' = FileBad("raised")
                 /\ pc' = "crash" /\ UNCHANGED <<last, remote>>
            ELSE /\ loaded' = load_state(lastFile, e.START_ID)
                 /\ last' = load_state(lastFile, e.START_ID).val
                 /\ remote' = Reachable(remote,
                        NS_NextId(load_state(lastFile, e.START_ID).val))
                 /\ pc' = "scan"
    /\ UNCHANGED <<variant, lastFile, knownFile, current, offset, known,
                   prev, maxSaved, everKnown, eqVars, ovVars>>

\* An exception nothing catches ends the process with a traceback:
\* ValueError in load_state (line 19), TypeError at  last += 1  (line 54)
\* on a value that is not a number.
NS_Uncaught ==
    /\ variant = "nbtc"
    /\ \/ pc = "crash"
       \/ pc = "scan" /\ NS_LoopCond(blanks) /\ loaded.tag # "int"
    /\ pc' = "done" /\ exit' = EXIT_UNCAUGHT
    /\ cause' = (IF pc = "crash" THEN "load" ELSE "type")
    /\ UNCHANGED <<variant, environ, lastFile, knownFile, remote, current,
                   offset, known, last, blanks, new_devices, runs, loaded,
                   probes, stop, quiet, prev, maxSaved, pre, wrote, sends,
                   eqVars, ovVars, reported, everKnown>>

\* nbtc_scraper.py lines 53-60: one iteration of the while loop
NS_Probe ==
    /\ variant = "nbtc" /\ pc = "scan" /\ NS_LoopCond(blanks)
    /\ loaded.tag = "int"
    /\ Len(probes) < MaxNSProbes
    /\ \E net \in NetOutcomes : \E page \in PageChoices(NS_NextId(last)) :
         LET dev == fetch(NS_NextId(last), net, page) IN
         /\ last' = NS_NextId(last)
         /\ probes' = Append(probes,
                ProbeRec(NS_NextId(last),
                         IF net = "ok" THEN page.type ELSE "fail",
                         IF Truthy(dev) THEN "dev" ELSE None, Truthy(dev)))
         /\ remote' = IF net = "ok" THEN Reveal(NS_NextId(last), page)
                       ELSE remote
         /\ quiet' = (quiet /\ net = "ok")
         /\ blanks' = NS_BlanksAfter(dev, blanks)
         /\ new_devices' = IF Truthy(dev) THEN Append(new_devices, dev)
                            ELSE new_devices
         /\ lastFile' = KeptDuringScan(lastFile, last')
    /\ UNCHANGED <<variant, environ, knownFile, pc, current, offset, known,
                   exit, runs, loaded, cause, stop, prev, maxSaved, pre,
                   wrote, sends,
                   eqVars, ovVars, reported, everKnown>>

\* The same iteration once the run has made MaxNSProbes probes: the loop
\* goes on, and the model stops telling the identifiers apart.  Every
\* identifier above the horizon is represented by the first one above it,
\* and the records found there by one record.
NS_ProbeBeyond ==
    /\ variant = "nbtc" /\ pc = "scan" /\ NS_LoopCond(blanks)
    /\ loaded.tag = "int"
    /\ Len(probes) = MaxNSProbes
    /\ LET beyond == loaded.val + MaxNSProbes + 1 IN
       \E net \in NetOutcomes : \E page \in PagesSeenBy(variant) :
         LET dev == fetch(beyond, net, page) IN
         /\ last' = beyond
         /\ quiet' = (quiet /\ net = "ok")
         /\ blanks' = NS_BlanksAfter(dev, blanks)
         /\ new_devices' =
                IF Truthy(dev) /\ (new_devices = <<>>
                                   \/ new_devices[Len(new_devices)] # dev)
                THEN Append(new_devices, dev) ELSE new_devices
    /\ UNCHANGED <<variant, environ, lastFile, knownFile, remote, pc,
                   current, offset, known, exit, runs, loaded, probes, cause,
                   stop, prev, maxSaved, pre, wrote, sends,
                   eqVars, ovVars, reported, everKnown>>

\* nbtc_scraper.py line 53: the loop condition is false
NS_LoopEnd ==
    /\ variant = "nbtc" /\ pc = "scan" /\ ~NS_LoopCond(blanks)
    /\ pc' = "save" /\ stop' = "blank"
    /\ UNCHANGED <<variant, environ, lastFile, knownFile, remote, current,
                   offset, known, last, blanks, new_devices, exit, runs,
                   loaded, probes, cause, quiet, prev, maxSaved, pre, wrote,
                   sends,
                   eqVars, ovVars, reported, everKnown>>

\* nbtc_scraper.py line 62: save_state(last)
NS_Save ==
    /\ variant = "nbtc" /\ pc = "save"
    /\ \E io \in WriteOutcomes :
         IF io = "ok"
         THEN /\ lastFile' = save_state(lastFile, last)
              /\ maxSaved' = Max(maxSaved, last)
              /\ wrote' = Append(wrote, "cursor")
              /\ pc' = "report"
              /\ UNCHANGED <<exit, cause>>
         ELSE /\ lastFile' = AfterFailedWrite(io, lastFile, TornCursor)
              /\ pc' = "done" /\ exit' = EXIT_UNCAUGHT /\ cause' = "save"
              /\ UNCHANGED <<maxSaved, wrote>>
    /\ UNCHANGED <<variant, environ, knownFile, remote, current, offset,
                   known, last, blanks, new_devices, runs, loaded, probes,
                   stop, quiet, prev, pre, sends,
                   eqVars, ovVars, reported, everKnown>>

\* nbtc_scraper.py lines 63-70: print, GITHUB_OUTPUT, sys.exit(1) / return.
\* Opening or writing the GITHUB_OUTPUT file can raise.
NS_Report ==
    /\ variant = "nbtc" /\ pc = "report"
    /\ \E writeOk \in BOOLEAN :
         IF new_devices # <<>> /\ ~writeOk
         THEN exit' = EXIT_UNCAUGHT /\ cause' = "output"
         ELSE exit' = NS_ExitStatus(new_devices) /\ UNCHANGED cause
    /\ reported' = NS_Reported(new_devices)
    /\ pc' = "done"
    /\ UNCHANGED <<variant, environ, lastFile, knownFile, remote, current,
                   offset, known, last, blanks, new_devices, runs, loaded,
                   probes, stop, quiet, prev, maxSaved, pre, wrote, sends,
                   everKnown, eqVars, ovVars>>

\* ------------------------------------------- nbtc_equipment_scraper.py
EquipmentIds == {"e1", "e2"}

\* What search_equipment can return, each URL standing for the equipment_id
\* scrape_equipment_details takes from it (lines 274-278): the URLs of the
\* list differ, the equipment_ids taken from them need not.
UrlLists == UNION {[1..n -> EquipmentIds] : n \in 0..MaxUrls}

\* What processing one URL comes to: scrape_equipment_details returns a
\* record of the target category, returns None, or something in the
\* iteration raises and is logged (lines 432-434).
ScrapeOutcomes == {"target", "none", "error"}

\* is_new_equipment(equipment_id)
M_is_new_equipment(id, tbl) == TRUE
is_new_equipment(id, tbl) == id \notin DOMAIN tbl

\* save_equipment: a new row, notified = False by default
save_equipment(id, tbl) == (id :> FALSE) @@ tbl

\* send_telegram_notification: equipment.notified = True; commit
MarkNotified(id, tbl) == [tbl EXCEPT ![id] = TRUE]

\* One more send recorded for an equipment_id.
Attempted(id, rec, att) ==
    IF id \in DOMAIN att THEN [att EXCEPT ![id] = Append(@, rec)]
    ELSE (id :> <<rec>>) @@ att

\* run_scrape_cycle lines 392-407: setup_driver and search_equipment.  A
\* driver that cannot be set up and an empty search both end the cycle.
EQ_Start ==
    /\ variant = "equipment" /\ pc = "idle" /\ runs < MaxRuns
    /\ environ' \in Environs(variant, lastFile)
    /\ \E urls \in UrlLists :
         /\ equipment_urls' = urls
         /\ pc' = IF urls = <<>> THEN "done" ELSE "cycle"
    /\ RunLocalReset /\ runs' = runs + 1
    /\ UNCHANGED <<variant, lastFile, knownFile, table, remote, current,
                   offset, known, last, blanks, loaded, prev, maxSaved,
                   everKnown, attempts, equipment_list, dirty, ovVars>>

\* run_scrape_cycle lines 409-423 and 432-434: one iteration of  for url in
\* equipment_urls  up to save_equipment
EQ_Process ==
    /\ variant = "equipment" /\ pc = "cycle" /\ equipment_urls # <<>>
    /\ LET id == Head(equipment_urls) IN
       \E got \in ScrapeOutcomes :
         IF got = "target" /\ is_new_equipment(id, table)
         THEN /\ table' = save_equipment(id, table)
              /\ pc' = "notify"
              /\ UNCHANGED equipment_urls
         ELSE /\ equipment_urls' = Tail(equipment_urls)
              /\ UNCHANGED <<table, pc>>
    /\ UNCHANGED <<variant, environ, lastFile, knownFile, remote, current,
                   offset, known, last, blanks, new_devices, exit, runs,
                   loaded, probes, cause, stop, quiet, prev, maxSaved, pre,
                   wrote, sends, reported, everKnown, attempts,
                   equipment_list, dirty, ovVars>>

\* run_scrape_cycle line 426 with send_telegram_notification (356-390), on
\* the row save_equipment returned: the cycle's own session holds it
EQ_Notify ==
    /\ variant = "equipment" /\ pc = "notify"
    /\ LET id == Head(equipment_urls) IN
       \E sendOk \in BOOLEAN :
         IF ~HasCreds(environ)
         THEN UNCHANGED <<table, sends, attempts>>
         ELSE /\ sends' = Append(sends, SendRec(sendOk, pc))
              /\ attempts' = Attempted(id, SendRec(sendOk, pc), attempts)
              /\ table' = IF sendOk THEN MarkNotified(id, table) ELSE table
    /\ equipment_urls' = Tail(equipment_urls)
    /\ pc' = "cycle"
    /\ UNCHANGED <<variant, environ, lastFile, knownFile, remote, current,
                   offset, known, last, blanks, new_devices, exit, runs,
                   loaded, probes, cause, stop, quiet, prev, maxSaved, pre,
                   wrote, reported, everKnown, equipment_list, dirty,
                   ovVars>>

\* run_scrape_cycle lines 436-441: the loop is over, close_driver
EQ_End ==
    /\ variant = "equipment" /\ pc = "cycle" /\ equipment_urls = <<>>
    /\ pc' = "done"
    /\ UNCHANGED <<variant, environ, lastFile, knownFile, remote, current,
                   offset, known, last, blanks, new_devices, exit, runs,
                   loaded, probes, cause, stop, quiet, prev, maxSaved, pre,
                   wrote, sends, eqVars, ovVars, reported, everKnown>>

\* ---------------------------------------------------- manage_scraper.py
\* The command  resend  of manage_scraper.py, one process per command
\* (main, lines 202-248).  ScraperManager has a session of its own (lines
\* 26-31); NBTCEquipmentScraper() made in send_notifications has another
\* (nbtc_equipment_scraper.py lines 104-109).

\* The rows a query returns, in some order.
RowsWhere(tbl, want) ==
    LET ids == {id \in DOMAIN tbl : want[id]} IN
    CHOOSE q \in [1..Cardinality(ids) -> ids] :
        \A i, j \in 1..Cardinality(ids) : i # j => q[i] # q[j]

\* resend_notifications lines 158-162: the rows of one equipment_id, or
\* the rows with notified = False
ResendList(tbl, equipment_id) ==
    IF equipment_id # None
    THEN RowsWhere(tbl, [id \in DOMAIN tbl |-> id = equipment_id])
    ELSE RowsWhere(tbl, [id \in DOMAIN tbl |-> ~tbl[id]])

\* resend_notifications lines 156-166
MG_Start ==
    /\ variant = "equipment" /\ pc = "idle" /\ runs < MaxRuns
    /\ table # <<>>
    /\ environ' \in Environs(variant, lastFile)
    /\ \E equipment_id \in EquipmentIds \cup {None} :
         /\ equipment_list' = ResendList(table, equipment_id)
         /\ pc' = IF ResendList(table, equipment_id) = <<>> THEN "done"
                  ELSE "resend"
    /\ dirty' = {}
    /\ RunLocalReset /\ runs' = runs + 1
    /\ UNCHANGED <<variant, lastFile, knownFile, table, remote, current,
                   offset, known, last, blanks, loaded, prev, maxSaved,
                   everKnown, attempts, equipment_urls, ovVars>>

\* resend_notifications lines 170-174, one iteration, with
\* send_telegram_notification (nbtc_equipment_scraper.py 356-390) of the
\* new scraper object.  equipment.notified = True  changes a row that the
\* manager's session holds; self.session.commit() commits the scraper's
\* session, which holds no changed row, so the table is as it was.
MG_Send ==
    /\ variant = "equipment" /\ pc = "resend" /\ equipment_list # <<>>
    /\ LET id == Head(equipment_list) IN
       \E sendOk \in BOOLEAN :
         IF ~HasCreds(environ)
         THEN UNCHANGED <<sends, attempts, dirty>>
         ELSE /\ sends' = Append(sends, SendRec(sendOk, pc))
              /\ attempts' = Attempted(id, SendRec(sendOk, pc), attempts)
              /\ dirty' = IF sendOk THEN dirty \cup {id} ELSE dirty
    /\ equipment_list' = Tail(equipment_list)
    /\ UNCHANGED <<variant, environ, lastFile, knownFile, table, remote, pc,
                   current, offset, known, last, blanks, new_devices, exit,
                   runs, loaded, probes, cause, stop, quiet, prev, maxSaved,
                   pre, wrote, reported, everKnown, equipment_urls, ovVars>>

\* resend_notifications line 176: asyncio.run returns, and main with it.
\* Nothing commits the manager's session.
MG_End ==
    /\ variant = "equipment" /\ pc = "resend" /\ equipment_list = <<>>
    /\ pc' = "done"
    /\ UNCHANGED <<variant, environ, lastFile, knownFile, remote, current,
                   offset, known, last, blanks, new_devices, exit, runs,
                   loaded, probes, cause, stop, quiet, prev, maxSaved, pre,
                   wrote, sends, eqVars, ovVars, reported, everKnown>>

\* ------------------------------------------------ around the process
\* The process has exited (the cycle has returned) and its memory is gone;
\* the scheduler may start the next run.  Of the run's history the summary
\* keeps what bears on the next run, and the model keeps track of the remote
\* site only from a quiet run to the next (after any other run every page
\* is open again, as after RemoteChange).  What a session held and did not
\* commit is gone with the process.
Finish ==
    /\ pc = "done"
    /\ pc' = "idle"
    /\ prev' = [ran |-> TRUE, completed |-> ~uncaught,
                cursor |-> (IF "cursor" \notin Range(wrote) THEN 0
                            ELSE IF variant = "scraper" THEN current
                            ELSE last),
                stop |-> stop, saved |-> "cursor" \in Range(wrote),
                quiet |-> (quiet /\ ~uncaught), kept |-> TRUE,
                ids |-> (IF quiet /\ ~uncaught THEN ProbedIds ELSE {}),
                first |-> (IF probes = <<>> \/ stop # "none" THEN 0
                           ELSE probes[1].id),
                START_ID |-> environ.START_ID]
    /\ environ' = NoEnviron
    /\ current' = 0 /\ offset' = 0 /\ known' = {}
    /\ last' = 0 /\ blanks' = 0
    /\ equipment_urls' = <<>>
    /\ loaded' = FileBad("none")
    /\ remote' = IF quiet /\ ~uncaught THEN remote ELSE <<>>
    /\ equipment_list' = <<>> /\ dirty' = {}
    /\ RunLocalReset
    /\ UNCHANGED <<variant, lastFile, knownFile, table, runs, maxSaved,
                   everKnown, attempts, ovVars>>

\* Between two runs the remote site publishes, withdraws or changes pages.
RemoteChange ==
    /\ pc = "idle" /\ remote # <<>> /\ runs < MaxRuns
    /\ remote' = <<>>
    /\ prev' = [prev EXCEPT !.quiet = FALSE]
    /\ UNCHANGED <<variant, environ, lastFile, knownFile, pc, current,
                   offset, known, last, blanks, new_devices, exit, runs,
                   loaded, probes, cause, stop, quiet, maxSaved, pre, wrote,
                   sends,
                   eqVars, ovVars, reported, everKnown>>

\* Between two runs the cursor file is lost or damaged (a fresh checkout, a
\* truncated write, an edit).
StateLost ==
    /\ pc = "idle" /\ prev.ran /\ runs < MaxRuns
    /\ lastFile.tag = "int"
    /\ lastFile' = FileBad("unreadable")
    /\ prev' = [prev EXCEPT !.kept = FALSE]
    /\ UNCHANGED <<variant, environ, knownFile, remote, pc, current, offset,
                   known, last, blanks, new_devices, exit, runs, loaded,
                   probes, cause, stop, quiet, maxSaved, pre, wrote, sends,
                   eqVars, ovVars, reported, everKnown>>

\* A scanner process is killed (the runner is cancelled or times out, the
\* machine goes down) wherever it is.  Killed while it writes a file, it can
\* leave the file truncated.
Die ==
    /\ variant # "equipment"
    /\ pc \in {"scan", "save_int", "save_known", "save", "report"}
    /\ pc' = "done" /\ exit' = EXIT_KILLED /\ cause' = "kill"
    /\ \E torn \in BOOLEAN :
         /\ lastFile' = IF torn /\ pc \in {"save_int", "save"}
                        THEN TornCursor ELSE lastFile
         /\ knownFile' = IF torn /\ pc = "save_known"
                         THEN TornKnown ELSE knownFile
    /\ UNCHANGED <<variant, environ, remote, current, offset, known, last,
                   blanks, new_devices, runs, loaded, probes, stop, quiet,
                   prev, maxSaved, pre, wrote, sends,
                   eqVars, ovVars, reported, everKnown>>

\* The statements of a started scraper.py process.
ScraperStep ==
    \/ SP_Probe \/ SP_LoopEnd \/ SP_SaveInt \/ SP_SaveKnown \/ SP_Report

\* The statements of a started nbtc_scraper.py process.
NbtcStep ==
    \/ NS_Probe \/ NS_LoopEnd \/ NS_Save \/ NS_Report \/ NS_Uncaught

\* The statements of a started scrape cycle.
EquipmentStep == EQ_Process \/ EQ_Notify \/ EQ_End

\* The statements of a started  manage_scraper.py resend.
ManagerStep == MG_Send \/ MG_End

\* What happens around a process: it exits, the site changes, the file
\* goes, it is killed.
Around == Finish \/ RemoteChange \/ StateLost \/ Die

Next ==
    \/ SP_Start \/ ScraperStep
    \/ NS_Start \/ NbtcStep
    \/ EQ_Start \/ EquipmentStep
    \/ MG_Start \/ ManagerStep
    \/ Around

Spec == Init /\ [][Next]_vars

\* scraper.py alone.  A sequential Python process that can take its next
\* step takes it; when the next run starts is the scheduler's business, and
\* what the remote site or the checkout does is nobody's.
ScraperInit == Init /\ variant = "scraper"
ScraperNext == SP_Start \/ ScraperStep \/ Around
ScraperFairSpec ==
    ScraperInit /\ [][ScraperNext]_vars /\ WF_vars(ScraperStep)

\* nbtc_scraper.py alone, its loop followed past the horizon, under the same
\* fairness.
NbtcInit == Init /\ variant = "nbtc"
NbtcLiveNext == NS_Start \/ NbtcStep \/ NS_ProbeBeyond \/ Around
NbtcLiveSpec ==
    NbtcInit /\ [][NbtcLiveNext]_vars /\ WF_vars(NbtcStep \/ NS_ProbeBeyond)

\* ------------------------------------------------- overlapping runs
\* Two nbtc_scraper.py processes on one state.json (a schedule that fires
\* while a manual run is going, two runners on one checkout).  Each runs
\* main as above; of its steps the model keeps those that read or write
\* state.json and the remote site, and it follows a process for MaxNSProbes
\* probes.  prev, probes and the other histories of the single process are
\* not kept here.

\* nbtc_scraper.py lines 49-51, in process p
OV_Start ==
    \E p \in Processes :
      /\ variant = "nbtc" /\ procs[p].pc = "idle"
      /\ ~load_state_raises(lastFile, NoEnviron.START_ID)
      /\ load_state(lastFile, NoEnviron.START_ID).tag = "int"
      /\ LET v == load_state(lastFile, NoEnviron.START_ID).val IN
         /\ procs' = [procs EXCEPT ![p] = [pc |-> "scan", last |-> v,
                                           blanks |-> 0, loaded |-> v]]
         /\ remote' = Reachable(remote, NS_NextId(v))
      /\ overlapped' = (overlapped
                          \/ \E q \in Processes \ {p} :
                               procs[q].pc \in {"scan", "save"})
      /\ UNCHANGED <<variant, environ, lastFile, knownFile, pc, current,
                     offset, known, last, blanks, new_devices, exit, runs,
                     loaded, probes, cause, stop, quiet, prev, maxSaved,
                     pre, wrote, sends, reported, everKnown, eqVars,
                     lastWriter>>

\* nbtc_scraper.py lines 53-60, one iteration in process p
OV_Probe ==
    \E p \in Processes :
      /\ procs[p].pc = "scan" /\ NS_LoopCond(procs[p].blanks)
      /\ procs[p].last - procs[p].loaded < MaxNSProbes
      /\ LET id == NS_NextId(procs[p].last) IN
         \E net \in NetOutcomes : \E page \in PageChoices(id) :
           /\ procs' = [procs EXCEPT
                   ![p].last = id,
                   ![p].blanks = NS_BlanksAfter(fetch(id, net, page), @)]
           /\ remote' = IF net = "ok" THEN Reveal(id, page) ELSE remote
      /\ UNCHANGED <<variant, environ, lastFile, knownFile, pc, current,
                     offset, known, last, blanks, new_devices, exit, runs,
                     loaded, probes, cause, stop, quiet, prev, maxSaved,
                     pre, wrote, sends, reported, everKnown, eqVars,
                     overlapped, lastWriter>>

\* nbtc_scraper.py line 53: the loop condition is false in process p
OV_LoopEnd ==
    \E p \in Processes :
      /\ procs[p].pc = "scan" /\ ~NS_LoopCond(procs[p].blanks)
      /\ procs' = [procs EXCEPT ![p].pc = "save"]
      /\ UNCHANGED <<variant, environ, lastFile, knownFile, remote, pc,
                     current, offset, known, last, blanks, new_devices,
                     exit, runs, loaded, probes, cause, stop, quiet, prev,
                     maxSaved, pre, wrote, sends, reported, everKnown,
                     eqVars, overlapped, lastWriter>>

\* nbtc_scraper.py line 62 in process p (what follows it reads and writes
\* nothing the other process sees)
OV_Save ==
    \E p \in Processes :
      /\ procs[p].pc = "save"
      /\ lastFile' = save_state(lastFile, procs[p].last)
      /\ maxSaved' = Max(maxSaved, procs[p].last)
      /\ lastWriter' = p
      /\ procs' = [procs EXCEPT ![p].pc = "done"]
      /\ UNCHANGED <<variant, environ, knownFile, remote, pc, current,
                     offset, known, last, blanks, new_devices, exit, runs,
                     loaded, probes, cause, stop, quiet, prev, pre, wrote,
                     sends, reported, everKnown, eqVars, overlapped>>

OverlapInit == Init /\ variant = "nbtc" /\ lastFile.tag = "int"
OverlapNext == OV_Start \/ OV_Probe \/ OV_LoopEnd \/ OV_Save
OverlapSpec == OverlapInit /\ [][OverlapNext]_vars

\* =================================================================
\* Properties
\* =================================================================
\* The news-found exit status of the script that runs.
NewsCode ==
    IF variant = "scraper" THEN EXIT_NEW_SCRAPER ELSE EXIT_NEW_NBTC

\* A probe of this run yielded a device the script counted as new.
FoundNew == \E i \in 1..Len(probes) : probes[i].new

\* The run has left its loop and the cursor file is still the one it loaded.
BeforeSave == pc \in {"scan", "save_int", "save"}

\* C1: a run that ends without an uncaught exception exits with the
\* news-found status of its script (77 for scraper.py, 1 for nbtc_scraper.py)
\* if and only if one of its probes yielded a new device, and with 0
\* otherwise.
C1_ExitStatusTellsNews ==
    (pc = "done" /\ ~uncaught) =>
        /\ (exit = NewsCode) <=> FoundNew
        /\ ~FoundNew => exit = EXIT_NOTHING

C1_Witness ==
    /\ pc = "done" /\ ~uncaught /\ variant = "scraper"
    /\ FoundNew /\ exit = EXIT_NEW_SCRAPER
    /\ \E i \in 1..Len(probes) : probes[i].res \in Names /\ ~probes[i].new

\* C2 (as claimed): with the cursor file holding N, the first identifier a run
\* probes is N + 1, in both scripts.
C2_FirstProbeIsNextId ==
    (BeforeSave /\ lastFile.tag = "int" /\ probes # <<>>) =>
        probes[1].id = lastFile.val + 1

\* C2 (amended): with the cursor file holding N, the first identifier a run
\* probes is N + 1 in nbtc_scraper.py and N itself in scraper.py.
C2_FirstProbePerScript ==
    (BeforeSave /\ lastFile.tag = "int" /\ probes # <<>>) =>
        probes[1].id = (IF variant = "nbtc" THEN lastFile.val + 1
                        ELSE lastFile.val)

C2_Witness ==
    /\ variant = "scraper" /\ pc = "scan" /\ prev.ran /\ prev.kept
    /\ lastFile.tag = "int" /\ Len(probes) >= 2
    /\ probes[1].id = lastFile.val

\* C3: one run of scraper.py makes at most MAX_PAGES probes, whatever the
\* stored cursor and the probe outcomes, and then ends.
C3_ProbeCeiling ==
    /\ [](variant = "scraper" => Len(probes) <= MAX_PAGES)
    /\ ((variant = "scraper" /\ pc = "scan") ~> (pc = "done"))

C3_Witness ==
    /\ variant = "scraper" /\ pc = "done" /\ stop = "ceiling"
    /\ Len(probes) = MAX_PAGES

\* C4: every run of nbtc_scraper.py that has entered its scan loop leaves it,
\* whatever the remote site answers.
C4_NbtcLoopTerminates ==
    (variant = "nbtc" /\ pc = "scan") ~> (pc # "scan")

\* Number of probes at the end of s whose result was None.
RECURSIVE TrailingBlanks(_)
TrailingBlanks(s) ==
    IF s = <<>> \/ s[Len(s)].res # None THEN 0
    ELSE 1 + TrailingBlanks(SubSeq(s, 1, Len(s) - 1))

\* The blank-run limit of the script that runs: BLANK_LIMIT in
\* nbtc_scraper.py; scraper.py breaks on the first None.
BlankRunLimit == IF variant = "nbtc" THEN BLANK_LIMIT ELSE 1

\* C5 (as claimed): once BlankRunLimit probes in a row were non-matching, that
\* probe is the last of the run (no later identifier is probed), and in
\* scraper.py, whose blank-run limit 1 is below its ceiling MAX_PAGES, the run
\* has then made fewer than MAX_PAGES probes.
C5_StopsBeforeCeiling ==
    \A i \in 1..Len(probes) :
        TrailingBlanks(SubSeq(probes, 1, i)) >= BlankRunLimit =>
            /\ i = Len(probes)
            /\ variant = "scraper" => Len(probes) < MAX_PAGES

\* C5 (amended): once BlankRunLimit probes in a row were non-matching, that
\* probe is the last of the run and the loop is left by the blank-run exit
\* (unless the process is killed first);
\* in scraper.py the run has then made at most MAX_PAGES probes, MAX_PAGES
\* only when the blank run ended on the MAX_PAGES-th probe itself.
C5_BlankRunStops ==
    \A i \in 1..Len(probes) :
        TrailingBlanks(SubSeq(probes, 1, i)) >= BlankRunLimit =>
            /\ i = Len(probes)
            /\ stop # "ceiling"
            /\ (pc # "scan" /\ cause # "kill") => stop = "blank"
            /\ variant = "scraper" => Len(probes) <= MAX_PAGES

\* A run that stopped on its blank run although the next identifier is known
\* to hold a record of the target type.
C5_Witness ==
    /\ variant = "nbtc" /\ pc = "done" /\ stop = "blank"
    /\ Len(probes) < MaxNSProbes
    /\ TrailingBlanks(probes) = BLANK_LIMIT
    /\ last + 1 \in DOMAIN remote
    /\ remote[last + 1].type = TARGET_TYPE

\* C6 (as claimed): whenever a run has persisted a cursor, the cursor file
\* holds the highest value any run has persisted so far.
C6_CursorNeverDecreases ==
    (lastFile.tag = "int" /\ maxSaved > 0) => lastFile.val = maxSaved

\* C6 (amended): a run persists a value at least as high as the value it
\* loaded; so the persisted cursor does not decrease from one run to the next
\* as long as the file the earlier run wrote is still there at the next load.
C6_CursorNotBelowLoaded ==
    (pc # "idle" /\ "cursor" \in Range(wrote)) =>
        /\ lastFile.tag = "int"
        /\ lastFile.val >= loaded.val
        /\ (prev.ran /\ prev.saved /\ prev.kept) =>
               lastFile.val >= prev.cursor

C6_Witness ==
    /\ pc = "done" /\ "cursor" \in Range(wrote)
    /\ prev.ran /\ prev.saved /\ prev.kept
    /\ lastFile.val > prev.cursor

\* Two runs in succession, both ended without an uncaught exception, the
\* second having loaded what the first persisted, and the remote site giving
\* every identifier the same classification throughout.
SecondOfTwoQuietRuns ==
    /\ variant # "equipment"
    /\ pc = "done" /\ ~uncaught /\ quiet
    /\ prev.ran /\ prev.completed /\ prev.quiet /\ prev.kept

\* Identifiers at which this run found a new device.
FoundIds == {probes[i].id : i \in {j \in 1..Len(probes) : probes[j].new}}

\* C7 (as claimed): the second of two such runs finds nothing.
C7_SecondRunFindsNothing ==
    SecondOfTwoQuietRuns => new_devices = <<>>

\* C7 (amended): the second of two such runs finds nothing when the first was
\* a scraper.py run that stopped on a non-match; otherwise (the first run used
\* all MAX_PAGES probes, or the script is nbtc_scraper.py) the second run goes
\* on to identifiers the first never probed, and whatever it finds it finds
\* there.
C7_SecondRunFindsOnlyBeyond ==
    SecondOfTwoQuietRuns =>
        /\ (variant = "scraper" /\ prev.stop = "blank") => new_devices = <<>>
        /\ FoundIds \cap prev.ids = {}

C7_Witness ==
    /\ SecondOfTwoQuietRuns /\ variant = "scraper" /\ prev.stop = "blank"
    /\ Cardinality(prev.ids) >= 2 /\ probes # <<>>

\* C8 (as claimed): the second of two such runs leaves the persisted cursor
\* where the first left it.
C8_SecondRunKeepsCursor ==
    SecondOfTwoQuietRuns => lastFile = FileInt(prev.cursor)

\* C8 (amended): the second of two such runs persists the first run's cursor
\* again when the first was a scraper.py run that stopped on a non-match;
\* after a scraper.py run that used all MAX_PAGES probes it persists a cursor
\* that is not lower, and an nbtc_scraper.py run always persists a cursor at
\* least BLANK_LIMIT higher.
C8_SecondRunCursor ==
    SecondOfTwoQuietRuns =>
        /\ lastFile.tag = "int"
        /\ (variant = "scraper" /\ prev.stop = "blank") =>
               lastFile.val = prev.cursor
        /\ (variant = "scraper" /\ prev.stop = "ceiling") =>
               lastFile.val >= prev.cursor
        /\ variant = "nbtc" => lastFile.val >= prev.cursor + BLANK_LIMIT

C8_Witness ==
    /\ SecondOfTwoQuietRuns /\ variant = "scraper" /\ prev.stop = "blank"
    /\ Cardinality(prev.ids) >= 2 /\ lastFile.val = prev.cursor
    /\ probes # <<>>

NoDuplicates(s) == \A i, j \in 1..Len(s) : s[i] = s[j] => i = j

\* C9: in scraper.py a probe that yields a name already in the SeenSet (as
\* loaded, or as built so far in the run) adds nothing to new_devices; so
\* new_devices never holds a name twice, nor a name that was loaded.
C9_NameDedup ==
    variant = "scraper" =>
        /\ NoDuplicates(new_devices)
        /\ Range(new_devices) \subseteq known
        /\ pc \in {"scan", "save_int", "save_known"} =>
               Range(new_devices) \cap load_known(knownFile) = {}
        /\ Len(new_devices) =
               Cardinality({i \in 1..Len(probes) : probes[i].new})
        /\ \A i \in 1..Len(probes) :
               probes[i].new =>
                   \A j \in 1..(i - 1) : probes[j].res # probes[i].res

\* A run that met a loaded name, then a new name, then that new name again.
C9_Witness ==
    /\ variant = "scraper" /\ pc = "save_known"
    /\ \E i, j \in 1..Len(probes) :
         /\ i < j /\ probes[i].res \in Names
         /\ probes[j].res = probes[i].res /\ probes[i].new /\ ~probes[j].new
    /\ \E i \in 1..Len(probes) :
         probes[i].res \in load_known(knownFile)

\* C10: whatever the cursor file and the environment hold, loading the cursor
\* returns an integer without raising.
C10_LoadFailsSoft ==
    pc # "idle" => loaded.tag = "int"

\* C11: a probe whose request fails in transit (timeout, connection error)
\* is classified as a non-match like an absent page, and the run does not
\* end with an uncaught error because of it.
C11_FetchFailureIsNoMatch ==
    \A i \in 1..Len(probes) :
        probes[i].saw = "fail" =>
            /\ probes[i].res = None
            /\ cause # "fetch"

\* C12: a run whose write of the cursor file fails ends with an exit status
\* that is neither the no-news status nor the news-found status of its script.
C12_SaveFailureHasOwnStatus ==
    (pc = "done" /\ cause = "save") =>
        exit \notin {EXIT_NOTHING, NewsCode}

\* C13: a run that found a new device and whose Telegram send failed still
\* ends normally with the news-found status, its cursor and its names
\* persisted.
C13_SendFailureRecovered ==
    (variant = "scraper" /\ pc = "done" /\ cause # "kill"
       /\ \E i \in 1..Len(sends) : ~sends[i].ok) =>
        /\ cause = "none"
        /\ exit = NewsCode
        /\ wrote = <<"cursor", "known">>

\* C14: a run attempts at most one send, and none while it is still in its
\* loop (the scan of scraper.py, the URL loop of run_scrape_cycle).
C14_OneSendAfterScan ==
    LET own == {i \in 1..Len(sends) : sends[i].at # "resend"} IN
    /\ Cardinality(own) <= 1
    /\ \A i \in own : sends[i].at \notin {"scan", "cycle", "notify"}

\* What the durable state of a run that ended normally is when every
\* notification it had to make was sent: cursor and names as the scan left
\* them; every equipment row the cycle inserted marked notified.
AsAfterSuccessfulSend ==
    /\ variant = "scraper" =>
           /\ exit = SP_ExitStatus(new_devices)
           /\ lastFile = FileInt(current)
           /\ knownFile = [ok |-> TRUE, names |-> known]
    /\ variant = "equipment" =>
           \A id \in DOMAIN table \ DOMAIN pre.table : table[id]

\* The same, but for the notified flag of the rows inserted, which is False.
AsAfterSuccessfulSendButFlag ==
    /\ variant = "scraper" =>
           /\ exit = SP_ExitStatus(new_devices)
           /\ lastFile = FileInt(current)
           /\ knownFile = [ok |-> TRUE, names |-> known]
    /\ variant = "equipment" =>
           \A id \in DOMAIN table \ DOMAIN pre.table : ~table[id]

\* C15 (as claimed): without credentials no send is attempted, no error
\* comes of it, and the run ends with the exit status and the durable state
\* it would have with credentials and a successful send.
C15_NoCredsSameState ==
    (pc = "done" /\ ~environ.creds) =>
        /\ sends = <<>>
        /\ cause # "send"
        /\ cause = "none" => AsAfterSuccessfulSend

\* C15 (amended): without credentials no send is attempted and no error
\* comes of it; scraper.py ends with the exit status, cursor file and name
\* file it would have with credentials and a successful send; the equipment
\* tracker inserts the same rows, with notified left False where a
\* successful send sets it True.
C15_NoCredsNoSend ==
    /\ (pc = "done" /\ ~environ.creds) =>
           /\ sends = <<>>
           /\ cause # "send"
           /\ cause = "none" => AsAfterSuccessfulSendButFlag
    /\ (pc = "done" /\ environ.creds /\ cause = "none"
          /\ \A i \in 1..Len(sends) : sends[i].ok) =>
           AsAfterSuccessfulSend

C15_Witness ==
    /\ variant = "scraper" /\ pc = "done" /\ ~environ.creds
    /\ new_devices # <<>> /\ exit = EXIT_NEW_SCRAPER /\ sends = <<>>

\* The process is inside its scan loop, or ended there.
InsideLoop ==
    /\ variant # "equipment"
    /\ pc = "scan" \/ (pc = "done" /\ stop = "none")

\* C16: while a run is inside its scan loop, and when it dies there, the
\* cursor file and the name file are what they were when the run started;
\* and the run after one that died there (the files untouched in between,
\* the environment the same) starts probing at the same identifier.
C16_DeathInLoopLeavesState ==
    /\ InsideLoop => Durable = pre
    /\ (pc # "idle" /\ probes # <<>> /\ prev.ran /\ prev.first # 0
          /\ prev.kept /\ environ.START_ID = prev.START_ID) =>
           probes[1].id = prev.first

C16_Witness ==
    /\ pc = "scan" /\ Len(probes) >= 2
    /\ prev.ran /\ prev.first # 0 /\ prev.kept /\ ~prev.completed
    /\ probes[1].id = prev.first
    /\ lastFile.tag = "int"

\* The durable state a run leaves when it persists all it has to.
PostRun ==
    [last |-> FileInt(IF variant = "scraper" THEN current ELSE last),
     known |-> (IF variant = "scraper" THEN [ok |-> TRUE, names |-> known]
                ELSE knownFile),
     table |-> table]

\* C17: wherever a run is killed, the cursor file and the name file are
\* together what they were before the run, or together what the run
\* persists.
C17_PersistIsAtomic ==
    (variant # "equipment" /\ pc = "done" /\ cause = "kill") =>
        Durable \in {pre, PostRun}

\* The highest identifier probed in this run.
MaxProbed == CHOOSE m \in ProbedIds : \A x \in ProbedIds : x <= m

\* C18 (as claimed): the cursor a run persists is the highest identifier it
\* probed, however its loop stopped.
C18_CursorIsLastProbed ==
    (pc # "idle" /\ "cursor" \in Range(wrote)) => lastFile.val = MaxProbed

\* C18 (amended): the cursor a run persists is the highest identifier it
\* probed when the loop stopped on a non-match (scraper.py) or on the blank
\* run (nbtc_scraper.py), and one above it when scraper.py used all its
\* MAX_PAGES probes.
C18_CursorPerStop ==
    (pc # "idle" /\ "cursor" \in Range(wrote)) =>
        /\ probes # <<>>
        /\ stop = "blank" => lastFile.val = MaxProbed
        /\ stop = "ceiling" => lastFile.val = MaxProbed + 1

C18_Witness ==
    /\ variant = "scraper" /\ pc = "done" /\ stop = "ceiling"
    /\ "cursor" \in Range(wrote) /\ lastFile.val = MaxProbed + 1

\* C19: in nbtc_scraper.py, right after a probe that brought back a record
\* of another type than the target, blanks is 0 (and nothing was appended).
C19_OffTargetResetsBlanks ==
    (variant = "nbtc" /\ pc = "scan" /\ probes # <<>>
       /\ probes[Len(probes)].saw = "other") =>
        /\ blanks = 0
        /\ ~probes[Len(probes)].new

\* C20: in nbtc_scraper.py, right after a probe that brought back a record
\* of the target type, blanks is 0 and that record is the last element of
\* new_devices; the records of new_devices are in ascending order of id.
C20_MatchResetsAndAppends ==
    variant = "nbtc" =>
        /\ (pc = "scan" /\ probes # <<>>
              /\ probes[Len(probes)].saw = TARGET_TYPE) =>
               /\ blanks = 0
               /\ new_devices # <<>>
               /\ new_devices[Len(new_devices)] =
                      [id |-> probes[Len(probes)].id]
        /\ \A i, j \in 1..Len(new_devices) :
               i < j => new_devices[i].id < new_devices[j].id

C20_Witness ==
    /\ variant = "nbtc" /\ pc = "scan" /\ Len(new_devices) >= 2
    /\ probes[Len(probes)].saw = TARGET_TYPE /\ blanks = 0
    /\ \E i \in 1..Len(probes) : probes[i].res = None

\* The names in the known.json this run found when it started.
NamesAtStart == IF pre.known.ok THEN pre.known.names ELSE {}

AllNoMatch ==
    /\ pc = "done" /\ cause = "none" /\ probes # <<>>
    /\ \A i \in 1..Len(probes) : probes[i].res = None

\* C22 (as claimed): a run of scraper.py whose probes all return NoMatch
\* makes MAX_PAGES probes, finds nothing, persists the cursor
\* startId + MAX_PAGES - 1 (or startId + MAX_PAGES) and exits with the
\* no-news status.
C22_AllNoMatchRunsToCeiling ==
    (variant = "scraper" /\ AllNoMatch) =>
        /\ Len(probes) = MAX_PAGES
        /\ new_devices = <<>>
        /\ lastFile.tag = "int"
        /\ lastFile.val \in {probes[1].id + MAX_PAGES - 1,
                             probes[1].id + MAX_PAGES}
        /\ exit = EXIT_NOTHING

\* C22 (amended): a run of scraper.py whose first probe returns NoMatch
\* makes that one probe, at the identifier it loaded, finds nothing,
\* persists that identifier as its cursor and exits with the no-news status.
C22_AllNoMatchStopsAtOnce ==
    (variant = "scraper" /\ AllNoMatch) =>
        /\ Len(probes) = 1
        /\ probes[1].id = loaded.val
        /\ new_devices = <<>>
        /\ lastFile = FileInt(loaded.val)
        /\ exit = EXIT_NOTHING

C22_Witness ==
    /\ variant = "scraper" /\ AllNoMatch
    /\ Len(probes) = 1 /\ lastFile = FileInt(probes[1].id)
    /\ exit = EXIT_NOTHING /\ wrote = <<"cursor", "known">>

\* C23: a run that ends normally having found new devices has reported every
\* one of them (new_device.txt and the message for scraper.py, stdout and
\* GITHUB_OUTPUT for nbtc_scraper.py).
C23_EveryFoundDeviceReported ==
    (pc = "done" /\ cause = "none" /\ new_devices # <<>>) =>
        Range(new_devices) \subseteq Range(reported)

CursorWrites == Cardinality({i \in 1..Len(wrote) : wrote[i] = "cursor"})

\* C25: a scanner run writes its cursor file at most once, exactly once if
\* it ends normally, and only after its scan loop has exited: while it is in
\* the loop it has written nothing and the file is the one it started with.
C25_CursorWrittenOnceAfterLoop ==
    variant \in {"scraper", "nbtc"} =>
        /\ CursorWrites <= 1
        /\ (pc = "done" /\ cause = "none") => CursorWrites = 1
        /\ pc = "scan" => (wrote = <<>> /\ lastFile = pre.last)
        /\ CursorWrites = 1 => stop # "none"

C25_Witness ==
    /\ variant \in {"scraper", "nbtc"} /\ pc = "done" /\ cause = "none"
    /\ Len(probes) >= 2 /\ CursorWrites = 1 /\ wrote[1] = "cursor"
    /\ lastFile # pre.last

\* C26: the probes of one run are at consecutive identifiers, ascending, so
\* no identifier is probed twice and none is passed over.
C26_ConsecutiveAscendingProbes ==
    \A i \in 1..(Len(probes) - 1) : probes[i + 1].id = probes[i].id + 1

\* C27: a run of scraper.py that follows a completed run whose .last_id is
\* still there starts at the identifier that run stored, probes every
\* identifier from there to the highest one it probes, and probes none of
\* the identifiers the earlier run probed but the one it stored.
C27_ContiguousAcrossRuns ==
    (variant = "scraper" /\ prev.ran /\ prev.completed /\ prev.saved
       /\ prev.kept /\ probes # <<>>) =>
        /\ probes[1].id = prev.cursor
        /\ \A id \in probes[1].id..MaxProbed : id \in ProbedIds
        /\ (prev.ids \cap ProbedIds) \subseteq {prev.cursor}

\* The identifiers of the trailing blank run of the previous run.
PrevTrailingBlanks == (prev.cursor - BLANK_LIMIT + 1)..prev.cursor

\* C28 (as claimed): a run of nbtc_scraper.py that saves its cursor saves
\* one at least BLANK_LIMIT above the one it loaded, and no run probes an
\* identifier of the trailing blank run of the completed run before it.
C28_BlankNeverReprobed ==
    variant = "nbtc" =>
        /\ (pc # "idle" /\ "cursor" \in Range(wrote)) =>
               /\ loaded.tag = "int"
               /\ lastFile.val >= loaded.val + BLANK_LIMIT
        /\ (prev.ran /\ prev.completed /\ prev.saved) =>
               ProbedIds \cap PrevTrailingBlanks = {}

\* C28 (amended): a run of nbtc_scraper.py that saves its cursor saves one
\* at least BLANK_LIMIT above the one it loaded; and as long as the
\* state.json a completed run wrote is still there at the next load, the
\* next run probes only identifiers above that cursor.
C28_BlankNotReprobedWhileKept ==
    variant = "nbtc" =>
        /\ (pc # "idle" /\ "cursor" \in Range(wrote)) =>
               /\ loaded.tag = "int"
               /\ lastFile.val >= loaded.val + BLANK_LIMIT
        /\ (prev.ran /\ prev.completed /\ prev.saved /\ prev.kept) =>
               \A id \in ProbedIds : id > prev.cursor

C28_Witness ==
    /\ variant = "nbtc" /\ pc = "done" /\ cause = "none"
    /\ prev.ran /\ prev.completed /\ prev.saved /\ prev.kept
    /\ probes # <<>> /\ probes[1].id = prev.cursor + 1
    /\ lastFile.val >= prev.cursor + BLANK_LIMIT

\* A send made by a scrape cycle (not by  manage_scraper.py resend).
ByCycle(rec) == rec.at = "notify"

\* The sends the scrape cycles made for an equipment_id so far.
CycleSends(id) ==
    IF id \in DOMAIN attempts THEN SelectSeq(attempts[id], ByCycle)
    ELSE <<>>

\* C29: over all scrape cycles at most one send is made for an equipment_id,
\* and the row is in the table when it is made; a row is notified only if
\* that one send succeeded, and a row whose send failed is not notified.
C29_OneAttemptPerEquipment ==
    variant = "equipment" =>
        /\ pc = "notify" => Head(equipment_urls) \in DOMAIN table
        /\ \A id \in EquipmentIds :
             /\ Len(CycleSends(id)) <= 1
             /\ CycleSends(id) # <<>> => id \in DOMAIN table
             /\ (id \in DOMAIN table /\ table[id]) =>
                    CycleSends(id) = <<SendRec(TRUE, "notify")>>
             /\ (CycleSends(id) # <<>> /\ ~CycleSends(id)[1].ok) =>
                    ~table[id]

\* A later cycle is about to process an equipment_id whose only send, made
\* by an earlier cycle, failed.
C29_Witness ==
    /\ variant = "equipment" /\ pc = "cycle" /\ equipment_urls # <<>>
    /\ Head(equipment_urls) \in DOMAIN pre.table
    /\ CycleSends(Head(equipment_urls)) = <<SendRec(FALSE, "notify")>>
    /\ ~table[Head(equipment_urls)]
    /\ \E id \in DOMAIN table : table[id]

\* C30: when  manage_scraper.py resend  has ended, every row for which it
\* sent successfully is stored with notified = True.
C30_ResendStoresFlag ==
    (variant = "equipment" /\ pc = "done") =>
        \A id \in dirty : id \in DOMAIN table /\ table[id]

====
